---- MODULE Spec2Model ----
(***************************************************************************)
(* create_comparison.py: create_comparison_image() loads two screenshots,  *)
(* lays them out one above the other on a white canvas with header and     *)
(* caption text, and saves the composite.  The model follows the function  *)
(* statement by statement.  The environment (the two input files, the two  *)
(* font files, which default font the imaging library provides, whether    *)
(* the canvas can be allocated and whether the output can be written) is   *)
(* fixed by Init and decides which statement raises.                       *)
(***************************************************************************)
EXTENDS Integers, Sequences, FiniteSets, TLC

\* ---------------------------------------------------------------- bounds
MaxW == 1
MaxH == 1
MaxRuns == 2

\* Input image sizes: the small ones plus the sizes of the end-to-end scenario.
Widths == (1..MaxW) \cup {400}
Heights == (1..MaxH) \cup {300, 500}

\* ------------------------------------------------------ program constants
Overhead == 120
TitleY == 20
SubtitleY == 50
FirstOffset == 80
DescGap == 20
PasteGap == 50
SectionGap == 20

ComparisonPath == "/tmp/playwright-logs/error-validation-comparison.png"
FontLargeName == "DejaVuSans-Bold.ttf@24"
FontSmallName == "DejaVuSans.ttf@16"
DefaultFont == "default"
None == "None"

\* --------------------------------------------------------------- the data
\* A file on disk: "unreadable" (absent, or not an image: Image.open raises),
\* "truncated" (the header is read, so the size is known, but decoding the
\* pixel data raises when the image is first used), or "ok".
NoFile == [status |-> "unreadable", width |-> 0, height |-> 0]
Files ==
    {NoFile} \cup [status : {"truncated", "ok"}, width : Widths, height : Heights]

NoImage == [status |-> "none", width |-> 0, height |-> 0]
NoCanvas == [width |-> 0, height |-> 0]

VARIABLES
    validFile, invalidFile,   \* the two input files
    fontLargeOK, fontSmallOK, \* the two preferred font files load
    defaultBitmap,            \* load_default() gives the Latin-1 bitmap font
    memory,                   \* the canvas can be allocated
    writable,                 \* the output path can be written
    outFile,                  \* the file at the output path (NoCanvas: absent)
    run, rets,                \* the run in progress, the results of earlier runs
    pc,
    valid_img, invalid_img, width, height, comparison,
    font_large, font_small, y_offset,
    exc,                      \* the exception being propagated
    log,                      \* what the run has done to the canvas, in order
    saved,                    \* files written by this run
    stdout, ret

env == <<validFile, invalidFile, fontLargeOK, fontSmallOK, defaultBitmap, memory, writable>>
locals == <<valid_img, invalid_img, width, height, comparison, font_large, font_small, y_offset>>
vars == <<env, outFile, run, rets, pc, locals, exc, log, saved, stdout, ret>>

\* ------------------------------------------------------------ pure helpers
Max(a, b) == IF a >= b THEN a ELSE b

CanvasWidthFirst(a, b) == a.width
CanvasWidth(a, b) == Max(a.width, b.width)

CanvasHeight(a, b) == a.height + b.height + Overhead

PasteYNoGap(y) == y
PasteY(y) == y + PasteGap

NextOffsetNoHeight(y, img) == y + PasteGap + SectionGap
NextOffset(y, img) == y + PasteGap + img.height + SectionGap

\* Image.open reads the header only; the pixel data is decoded on first use.
DecodesAlways(img) == TRUE
Decodes(img) == img.status = "ok"

\* draw.text with the bitmap default font encodes the text as Latin-1.
Renders(latin1, font) == latin1 \/ font # DefaultFont \/ ~defaultBitmap

Entry(op, what, y, h) == [op |-> op, what |-> what, y |-> y, h |-> h]

Raise(msg) == /\ pc' = "except"
              /\ exc' = msg

\* ------------------------------------------------------------------- Init
Init ==
    /\ validFile \in Files
    /\ invalidFile \in Files
    /\ fontLargeOK \in BOOLEAN
    /\ fontSmallOK \in BOOLEAN
    /\ defaultBitmap \in BOOLEAN
    /\ memory \in BOOLEAN
    /\ writable \in BOOLEAN
    /\ outFile = NoCanvas
    /\ run = 1
    /\ rets = <<>>
    /\ pc = "open_valid"
    /\ valid_img = NoImage
    /\ invalid_img = NoImage
    /\ width = 0
    /\ height = 0
    /\ comparison = NoCanvas
    /\ font_large = "unset"
    /\ font_small = "unset"
    /\ y_offset = 0
    /\ exc = "none"
    /\ log = <<>>
    /\ saved = 0
    /\ stdout = <<>>
    /\ ret = "running"

\* ---------------------------------------------------------------- actions
\* line 8
OpenValid ==
    /\ pc = "open_valid"
    /\ IF validFile.status = "unreadable"
       THEN /\ Raise("cannot open valid-error-validation.png")
            /\ UNCHANGED valid_img
       ELSE /\ valid_img' = validFile
            /\ pc' = "open_invalid"
            /\ UNCHANGED exc
    /\ UNCHANGED <<env, outFile, run, rets, invalid_img, width, height, comparison,
                   font_large, font_small, y_offset, log, saved, stdout, ret>>

\* line 9
OpenInvalid ==
    /\ pc = "open_invalid"
    /\ IF invalidFile.status = "unreadable"
       THEN /\ Raise("cannot open invalid-error-validation.png")
            /\ UNCHANGED invalid_img
       ELSE /\ invalid_img' = invalidFile
            /\ pc' = "dimensions"
            /\ UNCHANGED exc
    /\ UNCHANGED <<env, outFile, run, rets, valid_img, width, height, comparison,
                   font_large, font_small, y_offset, log, saved, stdout, ret>>

\* lines 12-13
Dimensions ==
    /\ pc = "dimensions"
    /\ width' = CanvasWidth(valid_img, invalid_img)
    /\ height' = CanvasHeight(valid_img, invalid_img)
    /\ pc' = "new"
    /\ UNCHANGED <<env, outFile, run, rets, valid_img, invalid_img, comparison,
                   font_large, font_small, y_offset, exc, log, saved, stdout, ret>>

\* lines 16-19: the blank canvas and its drawing context
NewCanvas ==
    /\ pc = "new"
    /\ IF memory
       THEN /\ comparison' = [width |-> width, height |-> height]
            /\ log' = Append(log, Entry("new", "canvas", 0, height))
            /\ pc' = "truetype_large"
            /\ UNCHANGED exc
       ELSE /\ Raise("cannot allocate canvas")
            /\ UNCHANGED <<comparison, log>>
    /\ UNCHANGED <<env, outFile, run, rets, valid_img, invalid_img, width, height,
                   font_large, font_small, y_offset, saved, stdout, ret>>

\* line 23, inside the inner try
TruetypeLarge ==
    /\ pc = "truetype_large"
    /\ IF fontLargeOK
       THEN /\ font_large' = FontLargeName
            /\ pc' = "truetype_small"
       ELSE /\ pc' = "font_except"
            /\ UNCHANGED font_large
    /\ UNCHANGED <<env, outFile, run, rets, valid_img, invalid_img, width, height,
                   comparison, font_small, y_offset, exc, log, saved, stdout, ret>>

\* line 24, inside the inner try
TruetypeSmall ==
    /\ pc = "truetype_small"
    /\ IF fontSmallOK
       THEN /\ font_small' = FontSmallName
            /\ log' = Append(log, Entry("fonts", "preferred", 0, 0))
            /\ pc' = "title"
       ELSE /\ pc' = "font_except"
            /\ UNCHANGED <<font_small, log>>
    /\ UNCHANGED <<env, outFile, run, rets, valid_img, invalid_img, width, height,
                   comparison, font_large, y_offset, exc, saved, stdout, ret>>

\* lines 25-27: the bare except of the inner try
FontExcept ==
    /\ pc = "font_except"
    /\ font_large' = DefaultFont
    /\ font_small' = DefaultFont
    /\ log' = Append(log, Entry("fonts", "default", 0, 0))
    /\ pc' = "title"
    /\ UNCHANGED <<env, outFile, run, rets, valid_img, invalid_img, width, height,
                   comparison, y_offset, exc, saved, stdout, ret>>

\* One draw.text call at (20, y): at pc = at, then on to pc = next.
DrawText(at, next, what, y, latin1, font) ==
    /\ pc = at
    /\ IF Renders(latin1, font)
       THEN /\ log' = Append(log, Entry("text", what, y, 0))
            /\ pc' = next
            /\ UNCHANGED exc
       ELSE /\ Raise("'latin-1' codec can't encode character")
            /\ UNCHANGED log
    /\ UNCHANGED <<env, outFile, run, rets, valid_img, invalid_img, width, height,
                   comparison, font_large, font_small, saved, stdout, ret>>

\* lines 30-31
Title ==
    /\ DrawText("title", "subtitle", "title", TitleY, TRUE, font_large)
    /\ UNCHANGED y_offset

\* lines 32-33
Subtitle ==
    /\ DrawText("subtitle", "caption_valid", "subtitle", SubtitleY, TRUE, font_small)
    /\ UNCHANGED y_offset

\* lines 36-38: the caption starts with U+2705
CaptionValid ==
    /\ y_offset' = FirstOffset
    /\ DrawText("caption_valid", "desc_valid", "caption_valid", y_offset', FALSE, font_small)

\* lines 39-40
DescValid ==
    /\ DrawText("desc_valid", "paste_valid", "desc_valid", y_offset + DescGap, TRUE, font_small)
    /\ UNCHANGED y_offset

\* One comparison.paste(img, (0, y)): pixels outside the canvas are clipped.
Paste(at, next, what, img, y) ==
    /\ pc = at
    /\ IF Decodes(img)
       THEN /\ log' = Append(log, Entry("paste", what, y, img.height))
            /\ pc' = next
            /\ UNCHANGED exc
       ELSE /\ Raise("image file is truncated")
            /\ UNCHANGED log
    /\ UNCHANGED <<env, outFile, run, rets, valid_img, invalid_img, width, height,
                   comparison, font_large, font_small, y_offset, saved, stdout, ret>>

\* line 43
PasteValid == Paste("paste_valid", "caption_invalid", "valid", valid_img, PasteY(y_offset))

\* lines 46-48: the caption starts with U+274C
CaptionInvalid ==
    /\ y_offset' = NextOffset(y_offset, valid_img)
    /\ DrawText("caption_invalid", "desc_invalid", "caption_invalid", y_offset', FALSE, font_small)

\* lines 49-50
DescInvalid ==
    /\ DrawText("desc_invalid", "paste_invalid", "desc_invalid", y_offset + DescGap, TRUE, font_small)
    /\ UNCHANGED y_offset

\* line 53
PasteInvalid == Paste("paste_invalid", "save", "invalid", invalid_img, PasteY(y_offset))

SaveExclusive ==
    /\ pc = "save"
    /\ IF writable /\ outFile = NoCanvas
       THEN /\ outFile' = comparison
            /\ saved' = saved + 1
            /\ log' = Append(log, Entry("save", ComparisonPath, 0, 0))
            /\ pc' = "print_return"
            /\ UNCHANGED exc
       ELSE /\ Raise("cannot write error-validation-comparison.png")
            /\ UNCHANGED <<outFile, saved, log>>
    /\ UNCHANGED <<env, run, rets, locals, stdout, ret>>

SaveHoisted ==
    /\ pc = "paste_invalid"
    /\ saved = 0
    /\ outFile' = comparison
    /\ saved' = saved + 1
    /\ log' = Append(log, Entry("save", ComparisonPath, 0, 0))
    /\ UNCHANGED <<env, run, rets, pc, locals, exc, stdout, ret>>

\* lines 56-57: save() opens the path for writing, replacing what is there
Save ==
    /\ pc = "save"
    /\ IF writable
       THEN /\ outFile' = comparison
            /\ saved' = saved + 1
            /\ log' = Append(log, Entry("save", ComparisonPath, 0, 0))
            /\ pc' = "print_return"
            /\ UNCHANGED exc
       ELSE /\ Raise("cannot write error-validation-comparison.png")
            /\ UNCHANGED <<outFile, saved, log>>
    /\ UNCHANGED <<env, run, rets, locals, stdout, ret>>

PrintReturnNone ==
    /\ pc = "print_return"
    /\ stdout' = Append(stdout, <<"Comparison image created: ", ComparisonPath>>)
    /\ ret' = None
    /\ pc' = "done"
    /\ UNCHANGED <<env, outFile, run, rets, locals, exc, log, saved>>

\* lines 58-59
PrintReturn ==
    /\ pc = "print_return"
    /\ stdout' = Append(stdout, <<"Comparison image created: ", ComparisonPath>>)
    /\ ret' = ComparisonPath
    /\ pc' = "done"
    /\ UNCHANGED <<env, outFile, run, rets, locals, exc, log, saved>>

ExceptReraise ==
    /\ pc = "except"
    /\ stdout' = Append(stdout, <<"Error creating comparison: ", exc>>)
    /\ pc' = "uncaught"
    /\ UNCHANGED <<env, outFile, run, rets, locals, exc, log, saved, ret>>

\* lines 61-63: the handler of the outer try
Except ==
    /\ pc = "except"
    /\ stdout' = Append(stdout, <<"Error creating comparison: ", exc>>)
    /\ ret' = None
    /\ pc' = "done"
    /\ UNCHANGED <<env, outFile, run, rets, locals, exc, log, saved>>

\* lines 65-66: the script is run again; only the file system carries over
Rerun ==
    /\ pc = "done"
    /\ run < MaxRuns
    /\ run' = run + 1
    /\ rets' = Append(rets, ret)
    /\ pc' = "open_valid"
    /\ valid_img' = NoImage
    /\ invalid_img' = NoImage
    /\ width' = 0
    /\ height' = 0
    /\ comparison' = NoCanvas
    /\ font_large' = "unset"
    /\ font_small' = "unset"
    /\ y_offset' = 0
    /\ exc' = "none"
    /\ log' = <<>>
    /\ saved' = 0
    /\ stdout' = <<>>
    /\ ret' = "running"
    /\ UNCHANGED <<env, outFile>>

Next ==
    \/ OpenValid
    \/ OpenInvalid
    \/ Dimensions
    \/ NewCanvas
    \/ TruetypeLarge
    \/ TruetypeSmall
    \/ FontExcept
    \/ Title
    \/ Subtitle
    \/ CaptionValid
    \/ DescValid
    \/ PasteValid
    \/ CaptionInvalid
    \/ DescInvalid
    \/ PasteInvalid
    \/ Save
    \/ PrintReturn
    \/ Except
    \/ Rerun

Spec == Init /\ [][Next]_vars

\* ------------------------------------------------------------- properties
SuccessLine == <<"Comparison image created: ", ComparisonPath>>
ErrorLine == <<"Error creating comparison: ", exc>>

Did(ops) == {i \in DOMAIN log : log[i].op \in ops}
Placed(what) == {i \in Did({"text", "paste"}) : log[i].what = what}
InputsOK == validFile.status = "ok" /\ invalidFile.status = "ok"

\* C1: once the canvas exists, its width is the larger of the two input
\* widths and its height is the sum of the two input heights plus 120.
CanvasSizing ==
    comparison # NoCanvas =>
        /\ comparison.width >= valid_img.width
        /\ comparison.width >= invalid_img.width
        /\ comparison.width \in {valid_img.width, invalid_img.width}
        /\ comparison.height - valid_img.height - invalid_img.height = 120

CanvasSizingWitness ==
    /\ comparison # NoCanvas
    /\ valid_img.width < invalid_img.width
    /\ valid_img.height # invalid_img.height

\* C2: image B is pasted at or below the paste position of image A plus the
\* height of image A.
NonOverlap ==
    \A i \in Placed("valid") : \A j \in Placed("invalid") :
        log[j].y >= log[i].y + valid_img.height

NonOverlapWitness ==
    /\ Placed("valid") # {}
    /\ Placed("invalid") # {}
    /\ valid_img.height = 500

\* C3: when an input cannot be opened or decoded, the run never saves, and
\* it ends having printed the error line and returned None.
DecodeFailureNoResult ==
    ~InputsOK =>
        /\ saved = 0
        /\ Did({"save"}) = {}
        /\ outFile = NoCanvas
        /\ pc # "uncaught"
        /\ pc = "done" => /\ exc # "none"
                          /\ stdout = <<ErrorLine>>
                          /\ ret = None

DecodeFailureWitness ==
    /\ pc = "done"
    /\ validFile.status = "ok"
    /\ invalidFile.status = "truncated"
    /\ Placed("valid") # {}
    /\ exc = "image file is truncated"

\* C4: when a preferred font fails to load, both handles are the default
\* font and the composition (inputs decodable, canvas allocated, output
\* writable) still saves and returns the output path.
FontFallbackSucceeds ==
    (pc = "done" /\ ~(fontLargeOK /\ fontSmallOK) /\ InputsOK /\ memory /\ writable) =>
        /\ font_large = DefaultFont
        /\ font_small = DefaultFont
        /\ exc = "none"
        /\ saved = 1
        /\ ret = ComparisonPath

\* C5: when the save succeeds the run has written one file, the canvas, at
\* the output path, then prints the success line and returns the path; for
\* inputs 400x300 and 400x500 the file is 400x920.
SuccessResult ==
    saved > 0 =>
        /\ saved = 1
        /\ outFile = comparison
        /\ pc \in {"print_return", "done"}
        /\ pc = "print_return" => stdout = <<>>
        /\ pc = "done" => stdout = <<SuccessLine>> /\ ret = ComparisonPath
        /\ (/\ valid_img.width = 400 /\ valid_img.height = 300
            /\ invalid_img.width = 400 /\ invalid_img.height = 500)
           => outFile = [width |-> 400, height |-> 920]

SuccessWitness ==
    /\ pc = "done"
    /\ ret = ComparisonPath
    /\ valid_img.height = 300
    /\ invalid_img.height = 500
    /\ outFile = [width |-> 400, height |-> 920]

\* C6: whichever statement raises, the handler of the outer try takes it:
\* no run is left with an uncaught exception, every unfinished run can take
\* a step, and a finished run has printed exactly one line, the error line
\* exactly when it returned None and the success line otherwise.
AllHandled ==
    /\ pc # "uncaught"
    /\ pc # "done" => ENABLED Next
    /\ pc = "done" =>
        /\ Len(stdout) = 1
        /\ stdout[1] \in {SuccessLine, ErrorLine}
        /\ ret \in {None, ComparisonPath}
        /\ ret = None <=> (exc # "none" /\ stdout[1] = ErrorLine)
        /\ ret = ComparisonPath <=> (exc = "none" /\ stdout[1] = SuccessLine)

AllHandledWitness ==
    /\ pc = "done"
    /\ ret = None
    /\ Did({"paste"}) # {}
    /\ exc = "cannot write error-validation-comparison.png"

\* C7: when the first run returned the output path, every later run with the
\* same inputs finds the file in place, writes it again and returns the same
\* path.
OverwriteSucceeds ==
    (rets # <<>> /\ rets[1] = ComparisonPath) =>
        /\ outFile # NoCanvas
        /\ \A i \in DOMAIN rets : rets[i] = ComparisonPath
        /\ pc = "done" => ret = ComparisonPath /\ saved = 1 /\ outFile = comparison

OverwriteWitness ==
    /\ run = 2
    /\ pc = "done"
    /\ rets = <<ComparisonPath>>
    /\ ret = ComparisonPath

\* Every step among `later` has a step among `earlier` before it.
Preceded(earlier, later) ==
    \A j \in Did(later) : \E i \in Did(earlier) : i < j

AllTexts ==
    {"title", "subtitle", "caption_valid", "desc_valid", "caption_invalid", "desc_invalid"}

SaveIsLast ==
    \A j \in Did({"save"}) :
        /\ j = Len(log)
        /\ \A w \in AllTexts \cup {"valid", "invalid"} : \E i \in Placed(w) : i < j

\* C8 as claimed: the fonts are resolved before the canvas is allocated, the
\* canvas before any drawing, and the save comes after all drawing.
FontsThenCanvasOrder ==
    /\ Preceded({"fonts"}, {"new"})
    /\ Preceded({"new"}, {"text", "paste"})
    /\ SaveIsLast

\* C8 as amended: the canvas is allocated before the fonts are resolved, the
\* fonts before any drawing, and the save comes after all six text lines and
\* both pastes.
CanvasThenFontsOrder ==
    /\ Preceded({"new"}, {"fonts"})
    /\ Preceded({"fonts"}, {"text", "paste"})
    /\ SaveIsLast

OrderWitness ==
    /\ Did({"save"}) # {}
    /\ font_large = DefaultFont

\* C9: the sections are placed at strictly increasing vertical positions:
\* title 20, subtitle 50, caption A 80, image A 130, caption B 150 + hA,
\* image B 200 + hA; caption B starts at or below the bottom of image A.
IncreasingOffsets ==
    /\ \A i, j \in Did({"text", "paste"}) : i < j => log[i].y < log[j].y
    /\ \A i \in Placed("title") : log[i].y = 20
    /\ \A i \in Placed("subtitle") : log[i].y = 50
    /\ \A i \in Placed("caption_valid") : log[i].y = 80
    /\ \A i \in Placed("valid") : log[i].y = 130
    /\ \A i \in Placed("caption_invalid") :
           /\ log[i].y = 150 + valid_img.height
           /\ \A k \in Placed("valid") : log[i].y >= log[k].y + log[k].h
    /\ \A i \in Placed("invalid") : log[i].y = 200 + valid_img.height

IncreasingOffsetsWitness ==
    /\ Placed("invalid") # {}
    /\ valid_img.height = 300

\* C10: every pasted image ends at or above the bottom edge of the canvas.
PastesInsideCanvas ==
    \A i \in Did({"paste"}) : log[i].y + log[i].h <= comparison.height

====
